---- MODULE Spec2Model ----
(***************************************************************************)
(* A model of src/anim.py: the Animations class (effect selection, the     *)
(* frame closures and render_gif) together with the part of the file       *)
(* system and the external encoder that render_gif touches.                *)
(*                                                                         *)
(* Numbers.  Python floats are modelled by rationals:                      *)
(*   - a duration is an integer count of 1/DurDen seconds;                 *)
(*   - a time or a progress value is a pair <<n, d>> with d > 0;           *)
(*   - int(x) is truncation toward zero (Trunc), // is floor division.     *)
(* The durations, frame rates, canvases and picture sizes enumerated below *)
(* are ones on which IEEE double arithmetic gives the same frame counts    *)
(* and target sizes as exact arithmetic (0.3*5 = 1.5, 0.15*10 = 1.5, ...). *)
(* Where a frame closure truncates a float that was computed inexactly and *)
(* whose exact value is an integer, the rounding error decides between two *)
(* pixels: FloatInt gives both.                                            *)
(***************************************************************************)
EXTENDS Integers, Sequences, FiniteSets, TLC

VARIABLES
    self,      \* self[i]: the attributes of Animations instance i
    pc,        \* pc[i]: where instance i is inside render_gif ("idle" outside)
    rl,        \* rl[i]: the locals of the render_gif call of instance i
    fs,        \* the file system: path -> content (Absent when no such file)
    outcome,   \* outcome[i]: the last call made on instance i and how it ended
    selected,  \* selected[i]: an effect-selection call on i has returned normally
    probe      \* the last direct evaluation of the frame function

vars == <<self, pc, rl, fs, outcome, selected, probe>>

----------------------------------------------------------------------------
(* Bounds and program constants *)

\* durations are counted in 1/DurDen seconds (0.05 s units)
DurDen == 20
\* largest source image side drawn in the layout specification
MaxDim == 6
\* a frame function is probed at k/ProbeSteps of the session's duration
ProbeSteps == 10

\* defaults of Animations.__init__
DefaultScreenWidth == 1080
DefaultScreenHeight == 1920
\* illustration_height_percent = 0.4 and padding_percent = 0.01, in hundredths
IllustrationHeightPercent == 40
PaddingPercent == 1
\* duration = 0.3 s, in 1/DurDen seconds
DefaultDuration == 6
\* slide_in_overshoot: overshoot = 100, overshoot_ratio = 0.7 (in tenths)
DefaultOvershoot == 100
DefaultOvershootRatio == 7
RatioDen == 10
\* place_in_y / place_in_z: start_scale = 1.5, in halves
StartScaleHalves == 3

Inst == {1, 2}
None == <<>>
Some(v) == <<v>>
Absent == [kind |-> "absent", frames |-> <<>>]

----------------------------------------------------------------------------
(* Arithmetic *)

Max(a, b) == IF a >= b THEN a ELSE b
Min(a, b) == IF a <= b THEN a ELSE b
Abs(a) == IF a >= 0 THEN a ELSE -a

\* Python's a // b for b > 0
FloorDiv(a, b) == a \div b

\* Python's int(n / d) for the rational n/d, d > 0: truncation toward zero
Trunc(n, d) == IF n >= 0 THEN n \div d ELSE -((-n) \div d)

\* int(x) of a float x whose exact value is n/d, d > 0.  When x was computed
\* with rounding errors and n/d is an integer other than 0, x may lie just
\* below it in magnitude, and int() then gives the integer next to zero.
FloatInt(n, d, inexact) ==
    IF inexact /\ n % d = 0 /\ n # 0
    THEN {n \div d, (n \div d) - (IF n > 0 THEN 1 ELSE -1)}
    ELSE {Trunc(n, d)}

\* Python's round(n / d) for d > 0: round half to even
RoundHalfEven(n, d) ==
    LET q == n \div d
        r == n % d
    IN  IF 2 * r < d THEN q
        ELSE IF 2 * r > d THEN q + 1
        ELSE IF q % 2 = 0 THEN q ELSE q + 1

RECURSIVE GCD(_, _)
GCD(a, b) == IF b = 0 THEN a ELSE GCD(b, a % b)

\* the rational n/d, d > 0, in lowest terms
Reduced(n, d) == LET g == GCD(Abs(n), d) IN <<n \div g, d \div g>>

\* min(max(t / current_duration, 0), 1) as a rational <<n, d>> in lowest
\* terms, d > 0; t = tn/td seconds, current_duration = dur/DurDen seconds,
\* dur # 0
Progress(tn, td, dur) ==
    LET n == IF dur > 0 THEN tn * DurDen ELSE -(tn * DurDen)
        d == td * Abs(dur)
    IN  IF n <= 0 THEN <<0, 1>>
        ELSE IF n >= d THEN <<1, 1>>
        ELSE Reduced(n, d)

----------------------------------------------------------------------------
(* The 16 effect-selection methods *)

PrepareEffects ==
    {"bubble_pop", "slide_in", "slide_in_overshoot", "fade_in", "blur_in",
     "drop", "shake", "bounce", "blur_in_shake", "rotate_3d_page_flip",
     "bounce_pop_animation", "bubble_bounce_pop"}
OrDefaultEffects == {"transparent_in", "place_in_y", "place_in_z"}
Effects == PrepareEffects \cup OrDefaultEffects
\* effects that resize to the target size when selected
PreResizeEffects == {"rotate_3d_page_flip", "bounce_pop_animation"}
\* effects that set self.last_effect to their own name
NamingEffects == {"bubble_pop", "slide_in"} \cup OrDefaultEffects
\* effects that take a direction
DirectedEffects == {"slide_in", "slide_in_overshoot"}

\* Animations.__init__
NewInstance(sw, sh, out) ==
    [screen_width |-> sw,
     screen_height |-> sh,
     top_area_height |-> Trunc(sh * IllustrationHeightPercent, 100),
     padding_top |-> Trunc(sh * PaddingPercent, 100),
     default_duration |-> DefaultDuration,
     current_duration |-> DefaultDuration,
     output_path |-> out,
     frame_generator |-> None,
     last_effect |-> None,
     \* set by load_image only; the attributes do not exist before
     image_path |-> None,
     orig_img |-> None,
     target_width |-> 0,
     target_height |-> 0]

\* Animations.load_image, its arithmetic: int(iw * scale), int(ih * scale)
\* with scale = min(max_w / iw, max_h / ih, 1), for an image of size iw x ih
TargetSize(s, iw, ih) ==
    LET max_w == s.screen_width
        max_h == s.top_area_height - s.padding_top
        \* the smaller of max_w/iw and max_h/ih, as a rational
        a == IF max_w * ih <= max_h * iw THEN <<max_w, iw>> ELSE <<max_h, ih>>
        scale == IF a[1] <= a[2] THEN a ELSE <<1, 1>>
    IN  <<Trunc(iw * scale[1], scale[2]), Trunc(ih * scale[1], scale[2])>>

\* Animations.load_image: img = [decodable, iw, ih] is what Image.open finds
\* at image_path.  The path is stored before the image is opened.
LoadImage(s, img) ==
    LET s1 == [s EXCEPT !.image_path = Some(img)]
        t == TargetSize(s, img.iw, img.ih)
    IN  IF ~img.decodable
        THEN [raised |-> "UnidentifiedImageError", self |-> s1]
        ELSE [raised |-> "",
              self |-> [s1 EXCEPT !.orig_img = Some(<<img.iw, img.ih>>),
                                  !.target_width = t[1],
                                  !.target_height = t[2]]]

\* the duration an effect method stores: `duration if duration is not None
\* else default` in _prepare, `duration or default` in the last three methods
StoredDuration(s, e, dur) ==
    IF e \in PrepareEffects
    THEN IF dur # None THEN dur[1] ELSE s.default_duration
    ELSE IF dur # None /\ dur[1] # 0 THEN dur[1] ELSE s.default_duration

\* the y that centres content of height h in the placement region
CenterY(s, h) == s.padding_top + FloorDiv(s.top_area_height - s.padding_top - h, 2)
\* the x that centres content of width w on the canvas
CenterX(s, w) == FloorDiv(s.screen_width - w, 2)

\* Image.resize((w, h)) fails on a size that is not positive
ResizeFails(w, h) == w < 1 \/ h < 1

\* what the frame closure of effect e captures besides self
Closure(s, e, direction, overshoot, ratio) ==
    [effect |-> e,
     direction |-> IF e \in DirectedEffects THEN direction ELSE "left",
     overshoot |-> IF e = "slide_in_overshoot" THEN overshoot ELSE 0,
     overshoot_ratio |-> IF e = "slide_in_overshoot" THEN ratio ELSE 0,
     w |-> IF e \in PreResizeEffects THEN s.target_width ELSE 0,
     h |-> IF e \in PreResizeEffects THEN s.target_height ELSE 0,
     start_y |-> IF e = "place_in_y"
                 THEN -Trunc(s.target_height * StartScaleHalves, 2) ELSE 0,
     end_y |-> IF e = "place_in_y" THEN CenterY(s, s.target_height) ELSE 0]

\* One effect-selection method, called as e(image_path, duration = dur, ...):
\* the attributes afterwards and the exception raised ("" for none).
SelectEffect(s, e, img, dur, direction, overshoot, ratio) ==
    LET ld == LoadImage(s, img)
        s2 == [ld.self EXCEPT
                 !.current_duration = StoredDuration(s, e, dur),
                 !.last_effect = IF e \in NamingEffects THEN Some(e) ELSE None]
    IN  IF ld.raised # "" THEN ld
        ELSE IF e \in PreResizeEffects
                /\ ResizeFails(s2.target_width, s2.target_height)
        THEN [raised |-> "ValueError", self |-> s2]
        ELSE [raised |-> "",
              self |-> [s2 EXCEPT !.frame_generator =
                          Some(Closure(s2, e, direction, overshoot, ratio))]]

----------------------------------------------------------------------------
(* The frame closures.  A frame is described by the footprint of the pasted  *)
(* content: its size (w, h) and position (x, y); xs is the set of values x   *)
(* can take (see FloatInt).  `exact` says whether the footprint is the       *)
(* code's: it is FALSE for the effects whose offset or scale is computed     *)
(* with sin, cos, exp or random (then the footprint given is the centred     *)
(* target the offset or scale is applied to) and for those that round an     *)
(* eased float (then it is the value of exact arithmetic).                   *)

FrameOk(xs, y, w, h, exact) ==
    [raised |-> "", xs |-> xs, y |-> y, w |-> w, h |-> h, exact |-> exact]
FrameRaises(exc) ==
    [raised |-> exc, xs |-> {0}, y |-> 0, w |-> 0, h |-> 0, exact |-> TRUE]

\* frame f with the position x, one of f.xs
Pasted(f, x) ==
    [raised |-> f.raised, x |-> x, y |-> f.y, w |-> f.w, h |-> f.h,
     exact |-> f.exact]

\* ease_out_cubic(p) = 1 - (1 - p) ** 3 of the rational p
EaseOutCubic(p) ==
    LET n == p[1]
        d == p[2]
    IN  <<d * d * d - (d - n) * (d - n) * (d - n), d * d * d>>

\* the progress p a frame closure computes from t = tn/td; the last three
\* effects first replace t by min(t, current_duration)
FrameProgress(s, e, tn, td) ==
    IF e \in OrDefaultEffects /\ s.current_duration < 0
    THEN <<1, 1>>
    ELSE Progress(tn, td, s.current_duration)

\* slide_in_overshoot's x with the spring-back progress not rescaled:
\* q = p - overshoot_ratio
OvershootXUnscaled(s, g, p) ==
    LET start_x == IF g.direction = "left" THEN -s.target_width ELSE s.screen_width
        center_x == CenterX(s, s.target_width)
        over_x == IF g.direction = "left" THEN center_x + g.overshoot
                                          ELSE center_x - g.overshoot
        rn == g.overshoot_ratio
    IN  IF p[1] * RatioDen < rn * p[2]
        THEN <<start_x * (p[2] * rn) + (p[1] * RatioDen) * (over_x - start_x),
               p[2] * rn>>
        ELSE LET qn == p[1] * RatioDen - rn * p[2]
                 qd == p[2] * RatioDen
             IN  <<over_x * qd + qn * (center_x - over_x), qd>>

\* slide_in_overshoot's x before int(): a rational <<n, d>>, or <<0, 0>> when
\* the division by (1 - overshoot_ratio) is a division by zero
OvershootX(s, g, p) ==
    LET start_x == IF g.direction = "left" THEN -s.target_width ELSE s.screen_width
        center_x == CenterX(s, s.target_width)
        over_x == IF g.direction = "left" THEN center_x + g.overshoot
                                          ELSE center_x - g.overshoot
        rn == g.overshoot_ratio
    IN  IF p[1] * RatioDen < rn * p[2]
        THEN \* start_x + (p / overshoot_ratio) * (over_x - start_x)
             <<start_x * (p[2] * rn) + (p[1] * RatioDen) * (over_x - start_x),
               p[2] * rn>>
        ELSE IF rn = RatioDen THEN <<0, 0>>
        ELSE \* q = (p - overshoot_ratio) / (1 - overshoot_ratio)
             LET qn == p[1] * RatioDen - rn * p[2]
                 qd == p[2] * (RatioDen - rn)
             IN  <<over_x * qd + qn * (center_x - over_x), qd>>

\* whether slide_in_overshoot's x is computed with rounding errors: p / 0.7
\* and (p - 0.7) / (1 - 0.7) are exact only at p = 0, p = 0.7 and p = 1
OvershootInexact(g, p) ==
    /\ p[1] # 0
    /\ p[1] * RatioDen # g.overshoot_ratio * p[2]
    /\ p[1] # p[2]

\* bubble_pop's size with the floor of one pixel forgotten
BubblePopSizeUnfloored(target, p) == Trunc(target * p[1], p[2])

\* bubble_pop: max(1, int(self.target_width * p)), likewise for the height
BubblePopSize(target, p) == Max(1, Trunc(target * p[1], p[2]))

\* frame(t) of the selected effect, t = tn/td seconds, evaluated on the
\* attributes s the closure reads when it is called
Frame(s, tn, td) ==
    LET g == s.frame_generator[1]
        e == g.effect
        W == s.target_width
        H == s.target_height
        p == FrameProgress(s, e, tn, td)
        ep == EaseOutCubic(p)
    IN  IF s.current_duration = 0 THEN FrameRaises("ZeroDivisionError")
        ELSE IF e = "bubble_pop" THEN
            LET w == BubblePopSize(W, p)
                h == BubblePopSize(H, p)
            IN  FrameOk({CenterX(s, w)}, CenterY(s, h), w, h, TRUE)
        ELSE IF e = "bubble_bounce_pop" THEN
            FrameOk({CenterX(s, Max(1, W))}, CenterY(s, Max(1, H)),
                    Max(1, W), Max(1, H), FALSE)
        ELSE IF e \in PreResizeEffects THEN
            FrameOk({CenterX(s, g.w)}, CenterY(s, g.h), g.w, g.h, FALSE)
        ELSE IF e \in {"place_in_y", "place_in_z"} THEN
            LET q == IF e = "place_in_y" THEN p ELSE ep
                \* scale = 1.5 + (1.0 - 1.5) * q
                w == Trunc(W * (StartScaleHalves * q[2] - q[1]), 2 * q[2])
                h == Trunc(H * (StartScaleHalves * q[2] - q[1]), 2 * q[2])
                y == IF e = "place_in_y"
                     THEN Trunc(g.start_y * q[2] + (g.end_y - g.start_y) * q[1], q[2])
                     ELSE CenterY(s, h)
            IN  IF ResizeFails(w, h) THEN FrameRaises("ValueError")
                ELSE FrameOk({CenterX(s, w)}, y, w, h, FALSE)
        ELSE IF ResizeFails(W, H) THEN FrameRaises("ValueError")
        ELSE IF e = "slide_in" THEN
            LET start_x == IF g.direction = "left" THEN -W ELSE s.screen_width
                \* end_x = (screen_width - target_width) / 2, a true division
                n == 2 * start_x * ep[2] + ep[1] * ((s.screen_width - W) - 2 * start_x)
            IN  FrameOk({RoundHalfEven(n, 2 * ep[2])}, CenterY(s, H), W, H, FALSE)
        ELSE IF e = "slide_in_overshoot" THEN
            LET x == OvershootX(s, g, p)
            IN  IF x[2] = 0 THEN FrameRaises("ZeroDivisionError")
                ELSE FrameOk(FloatInt(x[1], x[2], OvershootInexact(g, p)),
                             CenterY(s, H), W, H, TRUE)
        ELSE IF e = "drop" THEN
            LET end_y == CenterY(s, H)
                n == (-H) * ep[2] + ep[1] * (end_y + H)
            IN  FrameOk({CenterX(s, W)}, RoundHalfEven(n, ep[2]), W, H, FALSE)
        ELSE IF e \in {"fade_in", "blur_in", "transparent_in"} THEN
            FrameOk({CenterX(s, W)}, CenterY(s, H), W, H, TRUE)
        ELSE \* shake, bounce, blur_in_shake
            FrameOk({CenterX(s, W)}, CenterY(s, H), W, H, FALSE)

----------------------------------------------------------------------------
(* fade_in's alpha channel.  An alpha value is an integer 0..255.           *)

\* Image.point with the table entries converted by truncation, int(a * e)
PointLutTruncating(a, e) == Trunc(a * e[1], e[2])

\* img.split()[3].point(lambda p: p * e) on the 8-bit alpha band: Image.point
\* tabulates the function over 0..255 and rounds each entry, round(a * e),
\* before handing the table to the C core; e = <<n, d>> lies in [0, 1]
PointLut(a, e) == RoundHalfEven(a * e[1], e[2])

\* bg.paste(img, (x, y), img) onto the canvas filled with (0, 0, 0, 0): the
\* band value v of img is blended with 0 under the mask value m, which is
\* the C core's (0 * (255 - m) + v * m) / 255, rounded as
\* tmp = v * m + 128, ((tmp >> 8) + tmp) >> 8
PasteBlend(v, m) ==
    LET tmp == v * m + 128
    IN  ((tmp \div 256) + tmp) \div 256

\* fade_in's frame(t), t = tn/td seconds: the alpha the returned canvas has
\* at a pixel where the resized source has alpha a (img is both the pasted
\* picture and the mask)
FadeInAlpha(s, tn, td, a) ==
    LET p == Progress(tn, td, s.current_duration)
        e == EaseOutCubic(p)
        faded == PointLut(a, e)
    IN  PasteBlend(faded, faded)

----------------------------------------------------------------------------
(* The file system and render_gif *)

OutDirs == {"A", "B"}
TempName == "temp.gif"
FileNames == {"a.webm"}
Paths == OutDirs \X (FileNames \cup {TempName})

\* os.path.join(self.output_path, "temp.gif")
TempPath(s) == <<s.output_path, TempName>>
\* os.path.join(self.output_path, filename)
OutputPath(s, filename) == <<s.output_path, filename>>

\* frames = int(self.current_duration * fps)
FrameCount(s, fps) == Trunc(s.current_duration * fps, DurDen)

\* the sample time taken at the start of the frame: t = i / fps
SampleTimeFrameStart(i, fps) == <<2 * i, 2 * fps>>

\* t = (i + 0.5) / fps, as the rational <<2i + 1, 2 fps>>
SampleTime(i, fps) == <<2 * i + 1, 2 * fps>>

NoRender == [filename |-> "", fps |-> 0, frames |-> 0, i |-> 0,
             samples |-> <<>>, read |-> <<>>]

\* a call ("select" for any of the effect methods), its argument (the
\* duration of an effect method, the filename of render_gif) and the
\* exception it ended with ("ok" for none)
Called(op, arg, result) == [op |-> op, arg |-> arg, result |-> result]

\* an effect-selection method called on instance i, the call c drawn from
\* calls: c.effect(c.img, duration = c.dur, ...)
Select(i, calls) ==
    /\ pc[i] = "idle"
    /\ \E c \in calls :
          LET r == SelectEffect(self[i], c.effect, c.img, c.dur, c.direction,
                                c.overshoot, DefaultOvershootRatio)
          IN  /\ self' = [self EXCEPT ![i] = r.self]
              /\ outcome' = [outcome EXCEPT ![i] =
                    Called("select", c.dur, IF r.raised = "" THEN "ok" ELSE r.raised)]
              /\ selected' = [selected EXCEPT ![i] = @ \/ r.raised = ""]
    /\ probe' = None
    /\ UNCHANGED <<pc, rl, fs>>

\* render_gif without its check of self.frame_generator
RenderBeginUnguarded(i, filename, fps) ==
    /\ pc[i] = "idle"
    /\ rl' = [rl EXCEPT ![i] =
          [filename |-> filename, fps |-> fps,
           frames |-> FrameCount(self[i], fps), i |-> 0,
           samples |-> <<>>, read |-> <<>>]]
    /\ fs' = [fs EXCEPT ![TempPath(self[i])] = [kind |-> "gif", frames |-> <<>>]]
    /\ pc' = [pc EXCEPT ![i] = "writing"]
    /\ outcome' = [outcome EXCEPT ![i] =
                      Called("render_gif", Some(filename), "running")]
    /\ UNCHANGED <<self, selected, probe>>

\* render_gif(filename, fps) up to the opening of the GIF writer; the writer
\* opens its target when it is constructed, which creates (or truncates) the
\* temporary file
RenderBegin(i, filename, fps) ==
    /\ pc[i] = "idle"
    /\ IF self[i].frame_generator = None
       THEN /\ outcome' = [outcome EXCEPT ![i] =
                              Called("render_gif", Some(filename), "RuntimeError")]
            /\ UNCHANGED <<pc, rl, fs>>
       ELSE /\ rl' = [rl EXCEPT ![i] =
                  [filename |-> filename, fps |-> fps,
                   frames |-> FrameCount(self[i], fps), i |-> 0,
                   samples |-> <<>>, read |-> <<>>]]
            /\ fs' = [fs EXCEPT ![TempPath(self[i])] =
                                   [kind |-> "gif", frames |-> <<>>]]
            /\ pc' = [pc EXCEPT ![i] = "writing"]
            /\ outcome' = [outcome EXCEPT ![i] =
                              Called("render_gif", Some(filename), "running")]
    /\ UNCHANGED <<self, selected, probe>>

\* one iteration of `for i in range(frames)`: evaluate the frame function at
\* the sample time and append the frame; an exception of the frame function
\* leaves the `with` block (the writer is closed) and render_gif
RenderFrame(i) ==
    /\ pc[i] = "writing"
    /\ rl[i].i < rl[i].frames
    /\ LET t == SampleTime(rl[i].i, rl[i].fps)
           fr == IF self[i].frame_generator = None
                 THEN FrameRaises("TypeError")  \* None is not callable
                 ELSE Frame(self[i], t[1], t[2])
           tmp == TempPath(self[i])
       IN  /\ rl' = IF fr.raised # ""
                    THEN [rl EXCEPT ![i] = NoRender]
                    ELSE [rl EXCEPT ![i].samples = Append(@, t), ![i].i = @ + 1]
           /\ IF fr.raised # ""
              THEN /\ pc' = [pc EXCEPT ![i] = "idle"]
                   /\ outcome' = [outcome EXCEPT ![i].result = fr.raised]
                   /\ UNCHANGED fs
              ELSE /\ fs' = IF fs[tmp].kind = "gif"
                            THEN [fs EXCEPT ![tmp].frames =
                                     Append(@, [by |-> i, t |-> t])]
                            ELSE fs  \* the file was unlinked meanwhile
                   /\ UNCHANGED <<pc, outcome>>
    /\ UNCHANGED <<self, selected, probe>>

\* the loop is over: the writer is closed and ffmpeg runs on the temporary
\* file (subprocess.run(cmd, check=True)).  ffmpeg can exit 0 only when its
\* input holds frames; when it exits non-zero on such an input it may or may
\* not have written part of the output already (-y overwrites).
RenderEncode(i) ==
    /\ pc[i] = "writing"
    /\ ~(rl[i].i < rl[i].frames)
    /\ LET input == fs[TempPath(self[i])]
           out == OutputPath(self[i], rl[i].filename)
       IN  \E exit \in {"ok", "failed", "failed_partial"} :
              /\ exit # "failed" => input.kind = "gif" /\ Len(input.frames) > 0
              /\ rl' = IF exit = "ok" THEN [rl EXCEPT ![i].read = input.frames]
                                      ELSE [rl EXCEPT ![i] = NoRender]
              /\ fs' = IF exit = "ok"
                       THEN [fs EXCEPT ![out] =
                                [kind |-> "webm", frames |-> <<>>]]
                       ELSE IF exit = "failed_partial"
                       THEN [fs EXCEPT ![out] =
                                [kind |-> "partial", frames |-> <<>>]]
                       ELSE fs
              /\ pc' = [pc EXCEPT ![i] = IF exit = "ok" THEN "removing" ELSE "idle"]
              /\ outcome' = IF exit = "ok" THEN outcome
                            ELSE [outcome EXCEPT ![i].result = "CalledProcessError"]
    /\ UNCHANGED <<self, selected, probe>>

\* os.remove(temp_gif), the last statement of render_gif
RenderRemove(i) ==
    /\ pc[i] = "removing"
    /\ LET tmp == TempPath(self[i])
       IN  IF fs[tmp].kind = "absent"
           THEN /\ outcome' = [outcome EXCEPT ![i].result = "FileNotFoundError"]
                /\ UNCHANGED fs
           ELSE /\ fs' = [fs EXCEPT ![tmp] = Absent]
                /\ outcome' = [outcome EXCEPT ![i].result = "ok"]
    /\ pc' = [pc EXCEPT ![i] = "idle"]
    /\ rl' = [rl EXCEPT ![i] = NoRender]
    /\ UNCHANGED <<self, selected, probe>>

\* a direct call self[i].frame_generator(t) at t = k/ProbeSteps of the
\* session's duration
EvalFrame(i, k) ==
    /\ pc[i] = "idle"
    /\ self[i].frame_generator # None
    /\ LET f == Frame(self[i], k * self[i].current_duration, ProbeSteps * DurDen)
       IN  \E x \in f.xs :
              probe' = Some([inst |-> i, k |-> k, frame |-> Pasted(f, x)])
    /\ UNCHANGED <<self, pc, rl, fs, outcome, selected>>

----------------------------------------------------------------------------
(* Inputs *)

\* the calls e(img, duration = dur, direction, overshoot) with e in Effs;
\* direction and overshoot keep their defaults where e does not take them
Calls(Effs, Imgs, Durs, Dirs, Overs) ==
    {[effect |-> e, img |-> img, dur |-> dur, direction |-> d, overshoot |-> o] :
        e \in Effs, img \in Imgs, dur \in Durs, d \in Dirs, o \in Overs}
    \ {c \in [effect : Effs, img : Imgs, dur : Durs, direction : Dirs,
               overshoot : Overs] :
           \/ c.effect \notin DirectedEffects /\ c.direction # "left"
           \/ c.effect # "slide_in_overshoot" /\ c.overshoot # DefaultOvershoot}

Corrupt == [decodable |-> FALSE, iw |-> 0, ih |-> 0]
Picture(iw, ih) == [decodable |-> TRUE, iw |-> iw, ih |-> ih]

\* an undecodable file, a landscape picture and a 1 x 5000 strip
SessionImages == {Corrupt, Picture(200, 100), Picture(1, 5000)}
\* duration arguments: omitted (0.3 s), 0, -0.25 s, 0.15 s
SessionDurations == {None, Some(0), Some(-5), Some(3)}
Directions == {"left", "right"}
FrameRates == {5, 10}

\* the inputs of the two concurrent sessions
ConcEffects == {"bubble_pop", "slide_in"}
ConcImages == {Picture(200, 100)}
ConcDurations == {Some(5)}
ConcFrameRates == {10}

\* canvases (screen_width, screen_height) small enough for pictures of side
\* at most MaxDim to be scaled down
SmallCanvases == {<<4, 10>>, <<5, 15>>, <<3, 20>>, <<4, 100>>}
GridImages == {Picture(iw, ih) : iw \in 1..MaxDim, ih \in 1..MaxDim}
FrameEffects == {"bubble_pop", "slide_in_overshoot", "fade_in", "place_in_y"}
FrameDurations == {Some(0), Some(-5), Some(5)}
FrameOvershoots == {-2, 0, 3, DefaultOvershoot}

SessionCalls ==
    Calls(Effects, SessionImages, SessionDurations, Directions, {DefaultOvershoot})
ConcCalls ==
    Calls(ConcEffects, ConcImages, ConcDurations, {"left"}, {DefaultOvershoot})
FrameCalls ==
    Calls(FrameEffects, GridImages, FrameDurations, Directions, FrameOvershoots)

\* the inputs of the fade_in renders: duration omitted (0.3 s) or 0.5 s,
\* at 10 and 60 frames per second
FadeEffects == {"fade_in", "bubble_pop"}
FadeImages == {Picture(200, 100), Picture(1, 5000)}
FadeDurations == {None, Some(10)}
FadeFrameRates == {10, 60}
FadeCalls ==
    Calls(FadeEffects, FadeImages, FadeDurations, {"left"}, {DefaultOvershoot})

----------------------------------------------------------------------------
(* Specifications *)

InitSession(canvases, dirs) ==
    /\ \E c \in canvases : \E outs \in [Inst -> dirs] :
          self = [i \in Inst |-> NewInstance(c[1], c[2], outs[i])]
    /\ pc = [i \in Inst |-> "idle"]
    /\ rl = [i \in Inst |-> NoRender]
    /\ fs = [path \in Paths |-> Absent]
    /\ outcome = [i \in Inst |-> Called("__init__", None, "ok")]
    /\ selected = [i \in Inst |-> FALSE]
    /\ probe = None

Init == InitSession({<<DefaultScreenWidth, DefaultScreenHeight>>}, {"A"})
InitConc == InitSession({<<DefaultScreenWidth, DefaultScreenHeight>>}, OutDirs)

Render(i, rates) ==
    \/ \E filename \in FileNames, fps \in rates : RenderBegin(i, filename, fps)
    \/ RenderFrame(i)
    \/ RenderEncode(i)
    \/ RenderRemove(i)

\* Spec: the calls a single-threaded caller makes on one instance (the
\* other instance is constructed and left alone)
Next ==
    \/ Select(1, SessionCalls)
    \/ Render(1, FrameRates)

Spec == Init /\ [][Next]_vars

\* SpecConc: two instances, each driven by its own thread
NextConc ==
    \E i \in Inst :
        \/ Select(i, ConcCalls)
        \/ Render(i, ConcFrameRates)

SpecConc == InitConc /\ [][NextConc]_vars

\* SpecFrame: on a fresh instance an effect is selected and its frame
\* function evaluated directly, over small canvases and every picture size
\* up to MaxDim
InitFrame == InitSession(SmallCanvases, {"A"})

NextFrame ==
    \/ outcome[1].op = "__init__" /\ Select(1, FrameCalls)
    \/ \E k \in -1..(ProbeSteps + 1) : EvalFrame(1, k)

SpecFrame == InitFrame /\ [][NextFrame]_vars

\* SpecFade: selections of fade_in (and of an effect that leaves the alpha
\* alone) followed by renders at up to 60 frames per second
NextFade ==
    \/ Select(1, FadeCalls)
    \/ Render(1, FadeFrameRates)

SpecFade == Init /\ [][NextFade]_vars

----------------------------------------------------------------------------
(* Properties *)

\* the render_gif call of instance i has left its frame loop normally
LoopDone(i) ==
    \/ pc[i] = "removing"
    \/ pc[i] = "writing" /\ ~(rl[i].i < rl[i].frames)

\* the render_gif call of instance i has returned or raised
RenderEnded(i) == pc[i] = "idle" /\ outcome[i].op = "render_gif"

\* C1: render_gif on an instance on which no effect-selection call has
\* returned normally raises RuntimeError, and the step creates no file,
\* evaluates no frame and does not reach the encoder.
C1_RenderBeforeSelectRaises ==
    [][\A filename \in FileNames, fps \in FrameRates :
          (~selected[1] /\ RenderBegin(1, filename, fps))
          => /\ outcome'[1] = Called("render_gif", Some(filename), "RuntimeError")
             /\ fs' = fs
             /\ rl' = rl
             /\ pc'[1] = "idle"]_vars

C1_Witness ==
    /\ ~selected[1]
    /\ outcome[1].op = "render_gif"
    /\ outcome[1].result = "RuntimeError"
    /\ self[1].image_path # None

\* C2: when the frame loop of a render with a positive duration d is over,
\* the frame function has been evaluated exactly round(d * fps) times.
C2_FrameCountIsRounded ==
    \A i \in Inst :
        (LoopDone(i) /\ self[i].current_duration > 0)
        => Len(rl[i].samples)
              = RoundHalfEven(self[i].current_duration * rl[i].fps, DurDen)

\* C3: during a render the frame function has been evaluated once for each
\* index 0, 1, ... in increasing order, the evaluation for index k at
\* (k + 0.5) / fps; the temporary file holds the frames in that order, the
\* sample times increase strictly, and the encoder reads that sequence.
C3_SamplesInOrder ==
    \A i \in Inst :
        pc[i] # "idle" =>
            LET smp == rl[i].samples
                written == [k \in 1..Len(smp) |-> [by |-> i, t |-> smp[k]]]
            IN  /\ Len(smp) = rl[i].i
                /\ \A k \in 1..Len(smp) :
                      \* smp[k] = ((k - 1) + 0.5) / fps
                      2 * smp[k][1] * rl[i].fps = (2 * (k - 1) + 1) * smp[k][2]
                /\ \A k \in 1..(Len(smp) - 1) :
                      smp[k][1] * smp[k + 1][2] < smp[k + 1][1] * smp[k][2]
                /\ pc[i] = "writing" => fs[TempPath(self[i])].frames = written
                /\ pc[i] = "removing" => rl[i].read = written
                /\ LoopDone(i) => Len(smp) = Max(0, FrameCount(self[i], rl[i].fps))

C3_Witness ==
    /\ pc[1] = "removing"
    /\ Len(rl[1].read) >= 3
    /\ rl[1].read[2].t = <<3, 2 * rl[1].fps>>

\* C4: once a render_gif call that created the temporary file has returned
\* or raised, the temporary file does not exist.
C4_TempFileRemoved ==
    \A i \in Inst :
        (RenderEnded(i) /\ outcome[i].result # "RuntimeError")
        => fs[TempPath(self[i])] = Absent

\* C5: after a render whose encoder exited non-zero there is no file at
\* output_path/filename; after a successful render the output file exists
\* and is the only file the render leaves behind.
C5_NoOutputOnEncoderFailure ==
    \A i \in Inst :
        RenderEnded(i) =>
            LET out == OutputPath(self[i], outcome[i].arg[1])
            IN  /\ outcome[i].result = "CalledProcessError" => fs[out] = Absent
                /\ outcome[i].result = "ok"
                   => fs[out].kind = "webm" /\ fs[TempPath(self[i])] = Absent

\* C6: two renders in flight never use the same temporary path, and the
\* encoder of a render has read only frames that this render wrote.
C6_TempPathsDisjoint ==
    /\ \A i \in Inst, j \in Inst :
          (i # j /\ pc[i] # "idle" /\ pc[j] # "idle")
          => TempPath(self[i]) # TempPath(self[j])
    /\ \A i \in Inst :
          pc[i] = "removing"
          => \A k \in 1..Len(rl[i].read) : rl[i].read[k].by = i

\* C7: an effect-selection call with a duration that is zero or negative
\* raises, and no render evaluates frames under a non-positive duration.
C7_NonPositiveDurationRejected ==
    \A i \in Inst :
        /\ (outcome[i].op = "select" /\ outcome[i].arg # None
            /\ outcome[i].arg[1] <= 0)
           => outcome[i].result # "ok"
        /\ (pc[i] = "writing" /\ Len(rl[i].samples) > 0)
           => self[i].current_duration > 0

\* C8: after load_image of an iw x ih picture the target size is
\* (floor(iw * s), floor(ih * s)) for s = min(maxW/iw, maxH/ih, 1), and
\* 1 <= target_width <= min(maxW, iw), 1 <= target_height <= min(maxH, ih).
C8_TargetSizeAtLeastOne ==
    \A i \in Inst :
        self[i].orig_img # None =>
            LET iw == self[i].orig_img[1][1]
                ih == self[i].orig_img[1][2]
                maxW == self[i].screen_width
                maxH == self[i].top_area_height - self[i].padding_top
                tw == self[i].target_width
                th == self[i].target_height
                \* n <= x * s < n + 1, for each of the three candidates of s
                IsFloor(n, x) ==
                    /\ n * iw <= x * maxW /\ n * ih <= x * maxH /\ n <= x
                    /\ \/ (n + 1) * iw > x * maxW
                       \/ (n + 1) * ih > x * maxH
                       \/ n + 1 > x
            IN  /\ IsFloor(tw, iw)
                /\ IsFloor(th, ih)
                /\ 1 <= tw /\ tw <= Min(maxW, iw)
                /\ 1 <= th /\ th <= Min(maxH, ih)

\* the progress at which probe pr evaluated the frame function, in
\* 1/ProbeSteps
ProbedAt(pr) == Max(0, Min(ProbeSteps, pr.k))

\* C9: slide_in_overshoot with overshoot_ratio = 0.7 pastes at the overshoot
\* position (center_x + overshoot for "left", center_x - overshoot for
\* "right") at p = 0.7 and at center_x = (screen_width - target_width) // 2
\* at p = 1; for p < 0.7 the pasted x is a pixel (at most one pixel off) of
\* the point at p / 0.7 of the straight line from the off-screen start to
\* the overshoot position.
C9_OvershootPositions ==
    (probe # None /\ probe[1].frame.raised = ""
     /\ self[probe[1].inst].frame_generator[1].effect = "slide_in_overshoot"
     /\ self[probe[1].inst].frame_generator[1].overshoot_ratio = DefaultOvershootRatio)
    => LET s == self[probe[1].inst]
           g == s.frame_generator[1]
           k == ProbedAt(probe[1])
           x == probe[1].frame.x
           center == (s.screen_width - s.target_width) \div 2
           over == IF g.direction = "left" THEN center + g.overshoot
                                           ELSE center - g.overshoot
           start == IF g.direction = "left" THEN -s.target_width
                                            ELSE s.screen_width
           \* the line at p / 0.7, as lineN / lineD
           lineD == DefaultOvershootRatio * ProbeSteps
           lineN == start * lineD + (k * RatioDen) * (over - start)
       IN  /\ k * RatioDen = DefaultOvershootRatio * ProbeSteps => x = over
           /\ k = ProbeSteps => x = center
           /\ k * RatioDen < DefaultOvershootRatio * ProbeSteps
              => /\ x * lineD - lineN <= lineD
                 /\ lineN - x * lineD <= lineD

C9_Witness ==
    /\ probe # None
    /\ probe[1].frame.raised = ""
    /\ self[1].frame_generator[1].effect = "slide_in_overshoot"
    /\ self[1].frame_generator[1].direction = "right"
    /\ self[1].frame_generator[1].overshoot = 3
    /\ probe[1].k * RatioDen = DefaultOvershootRatio * ProbeSteps
    /\ probe[1].frame.x = CenterX(self[1], self[1].target_width) - 3

\* C10 as claimed: bubble_pop's frame(0) has content of size zero, and
\* frame(duration) has content of the target size W x H at
\* x = (screen_width - W) // 2, y = padding_top + (top_area_height -
\* padding_top - H) // 2.
C10_ZeroSizedAtStart ==
    (probe # None /\ probe[1].frame.raised = ""
     /\ self[probe[1].inst].frame_generator[1].effect = "bubble_pop")
    => LET s == self[probe[1].inst]
           f == probe[1].frame
       IN  /\ probe[1].k = 0 => f.w = 0 /\ f.h = 0
           /\ probe[1].k = ProbeSteps
              => /\ f.w = s.target_width /\ f.h = s.target_height
                 /\ f.x = (s.screen_width - s.target_width) \div 2
                 /\ f.y = s.padding_top
                          + (s.top_area_height - s.padding_top - s.target_height) \div 2

\* C10, amended: bubble_pop's frame(0) has content of 1 x 1 pixel and
\* frame(duration) has content of max(1, W) x max(1, H) pixels, each centred:
\* x = (screen_width - w) // 2, y = padding_top + (top_area_height -
\* padding_top - h) // 2 for the content's size w x h; with a stored
\* duration of 0 the frame function raises ZeroDivisionError instead.
C10_OnePixelAtStart ==
    (probe # None
     /\ self[probe[1].inst].frame_generator[1].effect = "bubble_pop")
    => LET s == self[probe[1].inst]
           f == probe[1].frame
           Centred == /\ f.x = (s.screen_width - f.w) \div 2
                      /\ f.y = s.padding_top
                               + (s.top_area_height - s.padding_top - f.h) \div 2
       IN  IF s.current_duration = 0
           THEN f.raised = "ZeroDivisionError"
           ELSE /\ f.raised = ""
                /\ probe[1].k = 0 => f.w = 1 /\ f.h = 1 /\ Centred
                /\ probe[1].k = ProbeSteps
                   => /\ f.w = Max(1, s.target_width)
                      /\ f.h = Max(1, s.target_height)
                      /\ Centred

C10_Witness ==
    /\ probe # None
    /\ probe[1].k = 0
    /\ probe[1].frame.raised = ""
    /\ self[1].frame_generator[1].effect = "bubble_pop"
    /\ self[1].target_width > 1
    /\ probe[1].frame.w = 1

\* C11: a render of fade_in with duration 0.5 s at 60 frames per second
\* runs its loop over 30 frames; frame k is sampled at (k + 0.5) / 60, and
\* once the loop is over, frame 29 has composited alpha 255 and frame 0
\* composited alpha near 0 (under 1 % of 255) at every pixel where the
\* resized source has alpha 255; the only exception the frame function
\* raises is the resize to a target size that is not positive.
C11_FadeInLastFrameOpaque ==
    \A i \in Inst :
        (self[i].frame_generator # None
         /\ self[i].frame_generator[1].effect = "fade_in"
         /\ 2 * self[i].current_duration = DurDen
         /\ outcome[i].op = "render_gif"
         /\ (pc[i] # "idle" => rl[i].fps = 60))
        => LET s == self[i]
               smp == rl[i].samples
               written == fs[TempPath(s)].frames
           IN  /\ pc[i] # "idle" => rl[i].frames = 30
               /\ LoopDone(i)
                  => /\ Len(smp) = 30
                     /\ smp[1] = <<1, 120>> /\ smp[30] = <<59, 120>>
                     /\ pc[i] = "writing" => written[30].t = smp[30]
                     /\ FadeInAlpha(s, smp[30][1], smp[30][2], 255) = 255
                     /\ FadeInAlpha(s, smp[1][1], smp[1][2], 255) * 100 <= 255
               /\ (pc[i] = "idle"
                   /\ outcome[i].result \notin {"ok", "CalledProcessError"})
                  => /\ outcome[i].result = "ValueError"
                     /\ ResizeFails(s.target_width, s.target_height)

C11_Witness ==
    /\ pc[1] = "removing"
    /\ self[1].frame_generator[1].effect = "fade_in"
    /\ self[1].current_duration = 10
    /\ self[1].target_width = 200
    /\ rl[1].fps = 60
    /\ Len(rl[1].read) = 30
    /\ rl[1].read[30].t = <<59, 120>>
    /\ FadeInAlpha(self[1], 1, 120, 255) = 1

\* C12: an effect-selection call that raises on an instance with an effect
\* selected leaves the session as it was before the call: the installed frame function, current_duration, the
\* source image and the target size are unchanged, so that a following
\* render_gif evaluates the frames of the previously selected effect on its
\* own image and duration.
C12_FailedSelectionLeavesSession ==
    [][(selected[1] /\ Select(1, SessionCalls) /\ outcome'[1].result # "ok")
       => /\ self'[1].frame_generator = self[1].frame_generator
          /\ self'[1].current_duration = self[1].current_duration
          /\ self'[1].orig_img = self[1].orig_img
          /\ self'[1].target_width = self[1].target_width
          /\ self'[1].target_height = self[1].target_height
          /\ \A t \in {SampleTime(k, fps) : k \in 0..2, fps \in FrameRates} :
                self[1].frame_generator # None
                => Frame(self'[1], t[1], t[2]) = Frame(self[1], t[1], t[2])]_vars

====
